---- MODULE Spec2Model ----
(***************************************************************************)
(* A model of bagit.py: bagging a directory in place (bag_in_place and its *)
(* helpers) and checking a bag (is_valid, is_complete and their helpers),  *)
(* over a small file system.                                               *)
(*                                                                         *)
(* A path is a sequence of names; d1 and d2 are two sibling directories.   *)
(* A node of the file system is a directory or a regular file; a regular   *)
(* file holds its bytes (a number standing for the content) and, for a     *)
(* text file this program reads, its lines.                                *)
(***************************************************************************)
EXTENDS Integers, Sequences, FiniteSets, TLC

VARIABLES
    fs,                 \* the file system: path -> node
    tmpdirs,            \* how many directories tempfile.mkdtemp has created
    fileToChecksumMap,  \* the class attribute Manifest.fileToChecksumMap
    pc,                 \* where the running bag_in_place call is
    call,               \* the arguments of the running call
    todo,               \* what the running loop has still to visit
    before,             \* the file system when the running call started
    moved,              \* the names the running call handed to shutil.move
    edits,              \* how many times another actor changed the files
    last                \* that change, until the next call starts

vars == <<fs, tmpdirs, fileToChecksumMap, pc, call, todo, before, moved,
          edits, last>>

-----------------------------------------------------------------------------
(* Bounds of the model. *)

\* How many calls of bag_in_place and changes by another actor a run has.
MaxOps == 3

-----------------------------------------------------------------------------
(* Names and paths. *)

CHECKSUM_NAMES == {"md5", "sha1", "sha256", "sha512"}

\* The algorithm arguments the model calls bag_in_place with; "crc" is not
\* one of CHECKSUM_NAMES.
AlgorithmArgs == {"md5", "sha1", "crc"}

\* The contents a file can have.
Bytes == {1, 2}

\* A name is its text up to the white space that ends it (stem) and that
\* white space (tail), so that stripping and terminating a line of text are
\* computed and not assumed.
N(s) == [stem |-> s, tail |-> <<>>]

BagDirs == {<<N("d1")>>, <<N("d2")>>}

\* "manifest-{}.txt".format(algorithm)
manifest_stem(algorithm) ==
    CASE algorithm = "md5" -> "manifest-md5.txt"
      [] algorithm = "sha1" -> "manifest-sha1.txt"
      [] algorithm = "sha256" -> "manifest-sha256.txt"
      [] algorithm = "sha512" -> "manifest-sha512.txt"
      [] OTHER -> "manifest-crc.txt"

tagmanifest_stem(algorithm) ==
    CASE algorithm = "md5" -> "tagmanifest-md5.txt"
      [] algorithm = "sha1" -> "tagmanifest-sha1.txt"
      [] algorithm = "sha256" -> "tagmanifest-sha256.txt"
      [] algorithm = "sha512" -> "tagmanifest-sha512.txt"
      [] OTHER -> "tagmanifest-crc.txt"

NamedAlgorithms == CHECKSUM_NAMES \cup {"crc"}

\* name.startswith("manifest-")
startswith_manifest(name) ==
    \E a \in NamedAlgorithms : name.stem = manifest_stem(a)

\* name.startswith("tagmanifest-")
startswith_tagmanifest(name) ==
    \E a \in NamedAlgorithms : name.stem = tagmanifest_stem(a)

\* re.split("-|\.", name)[1]
algorithm_of(name) ==
    CHOOSE a \in NamedAlgorithms :
        name.stem = manifest_stem(a) \/ name.stem = tagmanifest_stem(a)

\* str.rstrip on a path: the white space that ends the string is that of
\* its last name.
rstrip(path) ==
    IF path = <<>> THEN path
    ELSE [path EXCEPT ![Len(path)].tail = <<>>]

\* The text of a path followed by the character c.
followed_by(path, c) ==
    [path EXCEPT ![Len(path)].tail = Append(@, c)]

\* os.path.join: concatenation, ".." is kept as it is.
join(directory, path) == directory \o path

Front(path) == SubSeq(path, 1, Len(path) - 1)

basename(path) == path[Len(path)]

IsPrefix(directory, path) ==
    /\ Len(path) >= Len(directory)
    /\ SubSeq(path, 1, Len(directory)) = directory

IsUnder(directory, path) ==
    IsPrefix(directory, path) /\ Len(path) > Len(directory)

RECURSIVE CommonLen(_, _)
CommonLen(p, q) ==
    IF p = <<>> \/ q = <<>> \/ Head(p) # Head(q) THEN 0
    ELSE 1 + CommonLen(Tail(p), Tail(q))

\* os.path.relpath(key, directory)
relpath(key, directory) ==
    LET c == CommonLen(key, directory)
    IN  [i \in 1..(Len(directory) - c) |-> N("..")]
            \o SubSeq(key, c + 1, Len(key))

\* What the operating system makes of a path when it opens it: ".." leaves
\* the directory before it.
RECURSIVE Resolve(_)
Resolve(path) ==
    IF \A i \in 1..Len(path) : path[i] # N("..") THEN path
    ELSE LET r == Resolve(Front(path))
             n == basename(path)
         IN  IF n = N("..")
             THEN (IF r = <<>> THEN <<>> ELSE Front(r))
             ELSE Append(r, n)

-----------------------------------------------------------------------------
(* The file system. *)

Dir == [kind |-> "dir", bytes |-> 0, lines |-> {}]

File(b) == [kind |-> "file", bytes |-> b, lines |-> {}]

Text(ls) == [kind |-> "file", bytes |-> 0, lines |-> ls]

exists(f, path) == Resolve(path) \in DOMAIN f

isfile(f, path) ==
    Resolve(path) \in DOMAIN f /\ f[Resolve(path)].kind = "file"

isdir(f, path) ==
    Resolve(path) \in DOMAIN f /\ f[Resolve(path)].kind = "dir"

\* os.listdir(directory)
listdir(f, directory) ==
    {basename(p) : p \in {q \in DOMAIN f :
                            IsPrefix(directory, q)
                            /\ Len(q) = Len(directory) + 1}}

\* The regular files os.walk(top) reports, with their full paths
\* (os.path.join(dirName, file)): none when top is no directory.
walk_files(f, top) ==
    IF isdir(f, top)
    THEN {p \in DOMAIN f : IsUnder(top, p) /\ f[p].kind = "file"}
    ELSE {}

\* The dir_name of every step of os.walk(top) whose file_list is not empty.
walk_dirs_with_files(f, top) == {Front(p) : p \in walk_files(f, top)}

\* The file system with a node made, or put in the place of the one there.
put(f, path, node) ==
    [p \in DOMAIN f \cup {path} |-> IF p = path THEN node ELSE f[p]]

\* The part of the file system at and under a directory.
Subtree(f, directory) ==
    [p \in {q \in DOMAIN f : IsPrefix(directory, q)} |-> f[p]]

\* os.rename(src, real_dst) of shutil.move(src, dst) with dst a directory:
\* src and everything under it goes to dst/basename(src).
Renamed(src, dst, p) == dst \o SubSeq(p, Len(src), Len(p))

rename_into(f, src, dst) ==
    LET gone == {p \in DOMAIN f : IsPrefix(src, p)}
        kept == DOMAIN f \ gone
    IN  [q \in kept \cup {Renamed(src, dst, p) : p \in gone} |->
            IF q \in kept THEN f[q]
            ELSE f[CHOOSE p \in gone : Renamed(src, dst, p) = q]]

\* The digest hashlib computes: one value for each algorithm and content.
hexdigest(algorithm, b) == <<algorithm, b>>

\* _hash_file(hashlib.new(algorithm), full_path), for a file that exists.
_hash_file(f, algorithm, full_path) ==
    hexdigest(algorithm, f[Resolve(full_path)].bytes)

-----------------------------------------------------------------------------
(* The validator: is_valid, is_complete and their helpers.                  *)
(* A line of a manifest is [digest, rest]: the text before the first white  *)
(* space of the line, and the text after it with the "\n" that ends it. A   *)
(* line of fetch.txt is [url, length, rest].                                *)

data_dir_of(directory) == join(directory, <<N("data")>>)

\* The names os.listdir(bag_directory) gives that start with "manifest-" or
\* "tagmanifest-".
manifest_names(f, bag_directory) ==
    {n \in listdir(f, bag_directory) :
        startswith_manifest(n) \/ startswith_tagmanifest(n)}

\* Every line of every such file, with the name of its file.
manifest_lines(f, bag_directory) ==
    UNION {{<<n, l>> : l \in f[join(bag_directory, <<n>>)].lines} :
              n \in manifest_names(f, bag_directory)}

_check_fetch_items_exist(f, bag_directory) ==
    LET fetchfile == join(bag_directory, <<N("fetch.txt")>>)
    IN  isfile(f, fetchfile) =>
            \A l \in f[fetchfile].lines :
                isfile(f, join(bag_directory, l.rest))

_check_bagit_file_exists(f, bag_directory) ==
    isfile(f, join(bag_directory, <<N("bagit.txt")>>))

_check_payload_directory_exists(f, bag_directory) ==
    isdir(f, data_dir_of(bag_directory))

_check_at_least_one_payload_manifest_exists(f, bag_directory) ==
    \E filename \in listdir(f, bag_directory) : startswith_manifest(filename)

_all_files_in_manifests(f, bag_directory) ==
    {join(bag_directory, rstrip(nl[2].rest)) :
        nl \in manifest_lines(f, bag_directory)}

_check_all_files_in_manifests_exist(f, all_files) ==
    \A filename \in all_files : isfile(f, filename)

\* filename = os.path.join(dir_name, ): the directory os.walk is in, and not
\* the file in it.
_check_all_files_in_payload_dir_exist_in_at_least_one_manifest(f, bag_directory, all_files) ==
    \A dir_name \in walk_dirs_with_files(f, data_dir_of(bag_directory)) :
        LET filename == dir_name
        IN  ~(isfile(f, filename) /\ filename \notin all_files)

is_complete(f, bag_directory) ==
    LET all_files == _all_files_in_manifests(f, bag_directory)
    IN  /\ _check_fetch_items_exist(f, bag_directory)
        /\ _check_bagit_file_exists(f, bag_directory)
        /\ _check_payload_directory_exists(f, bag_directory)
        /\ _check_at_least_one_payload_manifest_exists(f, bag_directory)
        /\ _check_all_files_in_manifests_exist(f, all_files)
        /\ _check_all_files_in_payload_dir_exist_in_at_least_one_manifest(
               f, bag_directory, all_files)

\* check_line without the comparison of the two digests.
check_line_without_comparison(f, bag_directory, name, line) ==
    LET algorithm == algorithm_of(name)
        full_path == rstrip(join(bag_directory, line.rest))
    IN  IF algorithm \notin CHECKSUM_NAMES THEN "raise"
        ELSE IF ~isfile(f, full_path) THEN "raise"
        ELSE "next"

\* What is_valid does with one line of the file called name: "raise" (an
\* exception leaves is_valid: hashlib.new knows no such algorithm, or
\* _hash_file cannot open the file), "False" (the digests differ, is_valid
\* returns False) or "next" (it goes on to the next line).
check_line(f, bag_directory, name, line) ==
    LET algorithm == algorithm_of(name)
        full_path == rstrip(join(bag_directory, line.rest))
    IN  IF algorithm \notin CHECKSUM_NAMES THEN "raise"
        ELSE IF ~isfile(f, full_path) THEN "raise"
        ELSE IF line.digest # _hash_file(f, algorithm, full_path) THEN "False"
        ELSE "next"

\* is_valid with return True in the place of return is_complete(...).
is_valid_without_is_complete(f, bag_directory) ==
    LET stops == {check_line(f, bag_directory, nl[1], nl[2]) :
                     nl \in manifest_lines(f, bag_directory)} \ {"next"}
    IN  IF stops # {} THEN stops ELSE {"True"}

\* The results is_valid can give: the order of os.listdir and of the lines
\* of a manifest is not fixed, so any line that stops the loop can be the
\* first to do so; with no such line the result is that of is_complete.
is_valid(f, bag_directory) ==
    LET stops == {check_line(f, bag_directory, nl[1], nl[2]) :
                     nl \in manifest_lines(f, bag_directory)} \ {"next"}
    IN  IF stops # {} THEN stops
        ELSE IF is_complete(f, bag_directory) THEN {"True"} ELSE {"False"}

-----------------------------------------------------------------------------
(* The state before any call. *)

EmptyFs == [p \in {} |-> Dir]

EmptyMap == [k \in {} |-> hexdigest("md5", 0)]

NoCall == [directory |-> <<>>, algorithm |-> "md5", dryrun |-> FALSE]

NoBefore == [fs |-> EmptyFs, tmpdirs |-> 0]

NoEdit == [kind |-> "none", path |-> <<>>, valid |-> {}]

TrailingSpace == [stem |-> "t.txt", tail |-> <<" ">>]

\* What a directory may hold at first: a file, a directory with a file in
\* it, a file whose name ends in a space, and a data directory of its own.
TopEntries == {"a.txt", "sub", "t.txt ", "data"}

EntriesOf(directory, top) ==
    {<<directory, Dir>>}
    \cup (IF "a.txt" \in top
          THEN {<<join(directory, <<N("a.txt")>>), File(1)>>} ELSE {})
    \cup (IF "sub" \in top
          THEN {<<join(directory, <<N("sub")>>), Dir>>,
                <<join(directory, <<N("sub"), N("b.txt")>>), File(2)>>}
          ELSE {})
    \cup (IF "t.txt " \in top
          THEN {<<join(directory, <<TrailingSpace>>), File(1)>>} ELSE {})
    \cup (IF "data" \in top
          THEN {<<join(directory, <<N("data")>>), Dir>>,
                <<join(directory, <<N("data"), N("a.txt")>>), File(1)>>}
          ELSE {})

\* d1 starts empty, with a file, with a file and a directory, with a file
\* whose name ends in a space, or with a data directory already; d2 starts
\* with one file.
InitialTops == {{}, {"a.txt"}, {"a.txt", "sub"}, {"t.txt "}, {"data"}}

TreeOf(entries) ==
    [p \in {e[1] : e \in entries} |-> (CHOOSE e \in entries : e[1] = p)[2]]

Init ==
    /\ \E top1 \in InitialTops :
          fs = TreeOf(EntriesOf(<<N("d1")>>, top1)
                      \cup EntriesOf(<<N("d2")>>, {"a.txt"}))
    /\ tmpdirs = 0
    /\ fileToChecksumMap = EmptyMap
    /\ pc = "idle"
    /\ call = NoCall
    /\ todo = {}
    /\ before = NoBefore
    /\ moved = {}
    /\ edits = 0
    /\ last = NoEdit

-----------------------------------------------------------------------------
(* The bagger: bag_in_place, one action for each step that reads or changes *)
(* the file system.                                                         *)

\* shutil.move(src, dst) with dst a directory: moving a directory onto
\* itself is os.rename(src, src), which changes nothing; anything else goes
\* into dst.
shutil_move(f, src, dst) ==
    IF Resolve(src) = Resolve(dst) THEN f ELSE rename_into(f, src, dst)

\* bag = Bag(); bag.rootDir = directory.  Bag.__init__ calls
\* tempfile.mkdtemp(), which creates a directory.
bag_in_place(directory, algorithm, dryrun) ==
    /\ pc = "idle"
    /\ tmpdirs + edits < MaxOps
    /\ tmpdirs' = tmpdirs + 1
    /\ call' = [directory |-> directory, algorithm |-> algorithm,
                dryrun |-> dryrun]
    /\ before' = [fs |-> fs, tmpdirs |-> tmpdirs]
    /\ pc' = "create_data_directory"
    /\ last' = NoEdit
    /\ UNCHANGED <<fs, fileToChecksumMap, todo, moved, edits>>

\* os.makedirs(data_dir) raises FileExistsError when data_dir exists.
_create_data_directory ==
    /\ pc = "create_data_directory"
    /\ LET data_dir == data_dir_of(call.directory)
       IN  IF call.dryrun
           THEN fs' = fs /\ pc' = "move_files_to_data_dir"
           ELSE IF exists(fs, data_dir)
           THEN fs' = fs /\ pc' = "raised"
           ELSE /\ fs' = put(fs, data_dir, Dir)
                /\ pc' = "move_files_to_data_dir"
    /\ UNCHANGED <<tmpdirs, fileToChecksumMap, call, todo, before,
                   moved, edits, last>>

\* shutil.move for each of names, one after the other.
RECURSIVE move_each(_, _, _)
move_each(f, directory, names) ==
    IF names = {} THEN f
    ELSE LET filename == CHOOSE n \in names : TRUE
         IN  move_each(shutil_move(f, join(directory, <<filename>>),
                                   data_dir_of(directory)),
                       directory, names \ {filename})

\* The loop over os.listdir(directory), which holds data once it is made.
\* os.path.basename(filename) is not "data" compares the identity of two
\* string objects: same is whether the name that os.listdir gave is the very
\* object of the literal, which only a name equal to it can be and which the
\* language leaves to the interpreter.  No shutil.move of the loop can find
\* its destination taken: data is new and the names differ.
_move_files_to_data_dir(same) ==
    /\ pc = "move_files_to_data_dir"
    /\ LET names == listdir(fs, call.directory)
           handed == IF call.dryrun THEN {}
                     ELSE {n \in names : ~(same /\ n = N("data"))}
       IN  /\ same => N("data") \in names
           /\ fs' = move_each(fs, call.directory, handed)
           /\ moved' = handed
    /\ pc' = "create_bagit_file"
    /\ UNCHANGED <<tmpdirs, fileToChecksumMap, call, todo, before, edits,
                   last>>

BagitDeclarations ==
    {"BagIt-Version: 0.97", "Tag-File-Character-Encoding: UTF-8"}

_create_bagit_file ==
    /\ pc = "create_bagit_file"
    /\ fs' = IF call.dryrun THEN fs
             ELSE put(fs, join(call.directory, <<N("bagit.txt")>>),
                      Text(BagitDeclarations))
    /\ pc' = "create_payload_manifest"
    /\ moved' = {}
    /\ UNCHANGED <<tmpdirs, fileToChecksumMap, call, todo, before,
                   edits, last>>

\* Manifest(algorithm=algorithm) raises ValueError for an algorithm that is
\* not one of CHECKSUM_NAMES; the entries go into
\* payload_manifest.fileToChecksumMap, which is the attribute of the class.
_create_payload_manifest ==
    /\ pc = "create_payload_manifest"
    /\ IF call.algorithm \notin CHECKSUM_NAMES
       THEN /\ pc' = "raised"
            /\ fileToChecksumMap' = fileToChecksumMap
       ELSE LET found == walk_files(fs, data_dir_of(call.directory))
            IN  /\ fileToChecksumMap' =
                      [k \in DOMAIN fileToChecksumMap \cup found |->
                          IF k \in found
                          THEN _hash_file(fs, call.algorithm, k)
                          ELSE fileToChecksumMap[k]]
                /\ pc' = "write_payload_manifest"
    /\ UNCHANGED <<fs, tmpdirs, call, todo, before, moved, edits, last>>

manifest_path(directory, algorithm) ==
    join(directory, <<N(manifest_stem(algorithm))>>)

\* open(manifest_name, 'w'): the file is there and empty.
_write_payload_manifest_open ==
    /\ pc = "write_payload_manifest"
    /\ LET name == manifest_path(call.directory, call.algorithm)
       IN  IF call.dryrun
           THEN fs' = fs /\ todo' = {} /\ pc' = "return"
           ELSE /\ fs' = put(fs, name, Text({}))
                /\ todo' = DOMAIN fileToChecksumMap
                /\ pc' = "write_line"
    /\ UNCHANGED <<tmpdirs, fileToChecksumMap, call, before, moved,
                   edits, last>>

\* manifest.write("{} {}\n".format(digest, relative_path)) for one key.
_write_payload_manifest_line(key) ==
    /\ pc = "write_line"
    /\ key \in todo
    /\ LET name == manifest_path(call.directory, call.algorithm)
           relative_path == relpath(key, call.directory)
           line == [digest |-> fileToChecksumMap[key],
                    rest |-> followed_by(relative_path, "\n")]
       IN  fs' = [fs EXCEPT ![name].lines = @ \cup {line}]
    /\ todo' = todo \ {key}
    /\ UNCHANGED <<tmpdirs, fileToChecksumMap, pc, call, before, moved,
                   edits, last>>

\* The with block ends: the manifest is closed.
_write_payload_manifest_close ==
    /\ pc = "write_line"
    /\ todo = {}
    /\ pc' = "return"
    /\ UNCHANGED <<fs, tmpdirs, fileToChecksumMap, call, todo, before,
                   moved, edits, last>>

\* bag.payLoadManifests.append(payload_manifest) ... return bag: the
\* entries of the manifest are payload_manifest.fileToChecksumMap, which is
\* looked up on the instance and found on the class.
bag_in_place_return ==
    /\ pc = "return"
    /\ pc' = "returned"
    /\ UNCHANGED <<fs, tmpdirs, fileToChecksumMap, call, todo, before, moved,
                   edits, last>>

\* The caller goes on, after the return or after it caught the exception.
caller_continues ==
    /\ pc \in {"returned", "raised"}
    /\ pc' = "idle"
    /\ call' = NoCall
    /\ before' = NoBefore
    /\ moved' = {}
    /\ todo' = {}
    /\ UNCHANGED <<fs, tmpdirs, fileToChecksumMap, edits, last>>

\* The process ends and another one starts: the files stay, the class
\* attribute is that of a fresh interpreter.
process_restarts ==
    /\ pc \in {"idle", "returned", "raised"}
    /\ pc # "idle" \/ fileToChecksumMap # EmptyMap
    /\ pc' = "idle"
    /\ call' = NoCall
    /\ before' = NoBefore
    /\ moved' = {}
    /\ todo' = {}
    /\ fileToChecksumMap' = EmptyMap
    /\ UNCHANGED <<fs, tmpdirs, edits, last>>

-----------------------------------------------------------------------------
(* Another actor changes the files of a directory that has a data directory *)
(* between two calls.                                                       *)

PayloadFiles(f) ==
    UNION {walk_files(f, data_dir_of(d)) : d \in BagDirs}

ValidBags(f) == {d \in BagDirs : is_valid(f, d) = {"True"}}

overwrite_file(path, b) ==
    /\ pc = "idle"
    /\ tmpdirs + edits < MaxOps
    /\ path \in PayloadFiles(fs)
    /\ b # fs[path].bytes
    /\ fs' = [fs EXCEPT ![path].bytes = b]
    /\ edits' = edits + 1
    /\ last' = [kind |-> "overwrite", path |-> path, valid |-> ValidBags(fs)]
    /\ UNCHANGED <<tmpdirs, fileToChecksumMap, pc, call, todo, before,
                   moved>>

add_file(directory) ==
    /\ pc = "idle"
    /\ tmpdirs + edits < MaxOps
    /\ LET path == join(data_dir_of(directory), <<N("extra.txt")>>)
       IN  /\ isdir(fs, data_dir_of(directory))
           /\ ~exists(fs, path)
           /\ fs' = put(fs, path, File(1))
           /\ last' = [kind |-> "add", path |-> path,
                       valid |-> ValidBags(fs)]
    /\ edits' = edits + 1
    /\ UNCHANGED <<tmpdirs, fileToChecksumMap, pc, call, todo, before,
                   moved>>

remove_file(path) ==
    /\ pc = "idle"
    /\ tmpdirs + edits < MaxOps
    /\ path \in DOMAIN fs
    /\ fs[path].kind = "file"
    /\ \E d \in BagDirs : isdir(fs, data_dir_of(d)) /\ IsUnder(d, path)
    /\ fs' = [p \in DOMAIN fs \ {path} |-> fs[p]]
    /\ edits' = edits + 1
    /\ last' = [kind |-> "remove", path |-> path, valid |-> ValidBags(fs)]
    /\ UNCHANGED <<tmpdirs, fileToChecksumMap, pc, call, todo, before,
                   moved>>

\* Another tool writes fetch.txt with a line for a payload file, ended by a
\* newline or not.
write_fetch_file(directory, path, newline) ==
    /\ pc = "idle"
    /\ tmpdirs + edits < MaxOps
    /\ path \in walk_files(fs, data_dir_of(directory))
    /\ LET fetchfile == join(directory, <<N("fetch.txt")>>)
           relative_path == relpath(path, directory)
           line == [url |-> "http://host/file", length |-> "-",
                    rest |-> IF newline
                             THEN followed_by(relative_path, "\n")
                             ELSE relative_path]
       IN  /\ ~exists(fs, fetchfile)
           /\ fs' = put(fs, fetchfile, Text({line}))
           /\ last' = [kind |-> "fetch", path |-> fetchfile,
                       valid |-> ValidBags(fs)]
    /\ edits' = edits + 1
    /\ UNCHANGED <<tmpdirs, fileToChecksumMap, pc, call, todo, before,
                   moved>>

\* Another tool writes tagmanifest-md5.txt with the digest of bagit.txt.
write_tag_manifest(directory) ==
    /\ pc = "idle"
    /\ tmpdirs + edits < MaxOps
    /\ LET tagmanifest == join(directory, <<N(tagmanifest_stem("md5"))>>)
           bagitfile == join(directory, <<N("bagit.txt")>>)
       IN  /\ isfile(fs, bagitfile)
           /\ ~exists(fs, tagmanifest)
           /\ fs' = put(fs, tagmanifest,
                        Text({[digest |-> _hash_file(fs, "md5", bagitfile),
                               rest |-> followed_by(<<N("bagit.txt")>>,
                                                    "\n")]}))
           /\ last' = [kind |-> "tagmanifest", path |-> tagmanifest,
                       valid |-> ValidBags(fs)]
    /\ edits' = edits + 1
    /\ UNCHANGED <<tmpdirs, fileToChecksumMap, pc, call, todo, before,
                   moved>>

-----------------------------------------------------------------------------

Next ==
    \/ \E directory \in BagDirs, algorithm \in AlgorithmArgs,
          dryrun \in BOOLEAN : bag_in_place(directory, algorithm, dryrun)
    \/ _create_data_directory
    \/ \E same \in BOOLEAN : _move_files_to_data_dir(same)
    \/ _create_bagit_file
    \/ _create_payload_manifest
    \/ _write_payload_manifest_open
    \/ \E key \in todo : _write_payload_manifest_line(key)
    \/ _write_payload_manifest_close
    \/ bag_in_place_return
    \/ caller_continues
    \/ process_restarts
    \/ \E path \in DOMAIN fs, b \in Bytes : overwrite_file(path, b)
    \/ \E directory \in BagDirs : add_file(directory)
    \/ \E path \in DOMAIN fs : remove_file(path)
    \/ \E directory \in BagDirs, path \in DOMAIN fs, newline \in BOOLEAN :
          write_fetch_file(directory, path, newline)
    \/ \E directory \in BagDirs : write_tag_manifest(directory)

Spec == Init /\ [][Next]_vars

-----------------------------------------------------------------------------
(* The properties. *)

Running == pc # "idle"

Returned == pc = "returned" /\ ~call.dryrun

\* The regular files the directory of the running call held when the call
\* started, each as the path it has from that directory.
FilesBefore ==
    {relpath(p, call.directory) :
        p \in {q \in DOMAIN before.fs :
                 IsUnder(call.directory, q) /\ before.fs[q].kind = "file"}}

\* The file a line of a manifest of the directory refers to.
Referred(directory, line) == Resolve(rstrip(join(directory, line.rest)))

PayloadManifestLines(f, directory) ==
    {nl \in manifest_lines(f, directory) : startswith_manifest(nl[1])}

\* C1: bag_in_place (not a dry run, an algorithm of CHECKSUM_NAMES) on a
\* directory with no data entry does not raise, and when it has returned
\* is_valid of that directory is True and every digest of its manifest is
\* the digest of the file the line refers to.
C1_RoundTrip ==
    /\ (pc = "raised" /\ ~call.dryrun)
          => \/ call.algorithm \notin CHECKSUM_NAMES
             \/ exists(before.fs, data_dir_of(call.directory))
    /\ Returned =>
          /\ is_valid(fs, call.directory) = {"True"}
          /\ \A nl \in PayloadManifestLines(fs, call.directory) :
                check_line(fs, call.directory, nl[1], nl[2]) = "next"

\* C2: the loop hands every entry of the directory but data to shutil.move
\* and never data itself; when the call has returned every file is under
\* data at the path it had, with its content, and the directory holds data,
\* bagit.txt and the manifest and nothing else.
C2_Layout ==
    /\ N("data") \notin moved
    /\ (pc = "create_bagit_file" /\ ~call.dryrun)
          => moved = listdir(before.fs, call.directory)
    /\ Returned =>
          /\ \A p \in FilesBefore :
                LET now == join(data_dir_of(call.directory), p)
                IN  /\ isfile(fs, now)
                    /\ fs[now] = before.fs[join(call.directory, p)]
          /\ listdir(fs, call.directory) =
                {N("data"), N("bagit.txt"),
                 N(manifest_stem(call.algorithm))}

\* C3: in every state, a directory for which is_valid is True is one for
\* which is_complete is True.
C3_ValidImpliesComplete ==
    \A d \in BagDirs : "True" \in is_valid(fs, d) => is_complete(fs, d)

\* C3, its case and the converse that fails: between two calls one directory
\* is valid, and for another is_complete is True and is_valid is False.
C3_Witness ==
    \E d, e \in BagDirs :
        /\ pc = "idle"
        /\ is_valid(fs, d) = {"True"}
        /\ is_complete(fs, e)
        /\ is_valid(fs, e) = {"False"}

\* The last change overwrote a payload file that a manifest of the directory
\* lists, and the directory was valid before it.
OverwrittenInValid(d) ==
    /\ last.kind = "overwrite"
    /\ d \in last.valid
    /\ \E nl \in manifest_lines(fs, d) : Referred(d, nl[2]) = last.path

\* C4: after the content of one payload file that a manifest of a valid bag
\* lists has changed, and nothing else, is_valid is False and is_complete is
\* True.
C4_OverwriteInvalidates ==
    \A d \in BagDirs :
        OverwrittenInValid(d)
            => is_valid(fs, d) = {"False"} /\ is_complete(fs, d)

C4_Witness == \E d \in BagDirs : OverwrittenInValid(d)

\* C5: is_complete is False for a directory that has, under data, a regular
\* file that no line of a manifest-*.txt refers to.
C5_PayloadCoverage ==
    \A d \in BagDirs :
        (\E p \in walk_files(fs, data_dir_of(d)) :
            \A nl \in PayloadManifestLines(fs, d) : Referred(d, nl[2]) # p)
            => ~is_complete(fs, d)

\* C6: a call with an algorithm that is not in CHECKSUM_NAMES does not
\* return, and when it has raised the directory is as it was when the call
\* started.
C6_RejectedBeforeMutation ==
    (Running /\ call.algorithm \notin CHECKSUM_NAMES)
        => /\ pc # "returned"
           /\ pc = "raised"
                 => Subtree(fs, call.directory)
                        = Subtree(before.fs, call.directory)

\* C7: all through a dry run the file system is as it was when the call
\* started: the same files, and no directory made by tempfile.mkdtemp.
C7_DryRunChangesNothing ==
    (Running /\ call.dryrun)
        => fs = before.fs /\ tmpdirs = before.tmpdirs

\* C8: when a call has returned, the entries of its manifest, and the lines
\* of the manifest it wrote, are those of the regular files under data of the
\* directory of the call, one each.
C8_ManifestOwnsEntries ==
    Returned =>
        LET under == walk_files(fs, data_dir_of(call.directory))
            written == fs[manifest_path(call.directory,
                                        call.algorithm)].lines
        IN  /\ DOMAIN fileToChecksumMap = under
            /\ {l.rest : l \in written}
                  = {followed_by(relpath(p, call.directory), "\n") :
                        p \in under}

\* C9: is_valid is False, and does not raise, for a directory with a
\* manifest or tag manifest that has a line for a file that does not exist.
C9_MissingFileIsFalse ==
    \A d \in BagDirs :
        (\E nl \in manifest_lines(fs, d) : ~isfile(fs, Referred(d, nl[2])))
            => is_valid(fs, d) = {"False"}

\* C10: from the creation of data until the last line of the manifest is
\* written, is_complete of the directory of the running call is False.
C10_InterruptedNeverComplete ==
    (/\ ~call.dryrun
     /\ pc \in {"move_files_to_data_dir", "create_bagit_file",
                "create_payload_manifest", "write_payload_manifest",
                "write_line"}
     /\ ~(pc = "write_line" /\ todo = {}))
        => ~is_complete(fs, call.directory)

====
